---- MODULE Spec2Model ----
(***************************************************************************)
(* Model of utils/compute_frequencies.py: the frequency pipeline           *)
(* generate_frequency_data and its helpers popmax_expr, faf_expr,          *)
(* project_max_expr and _generate_downsamplings_cumulative.                *)
(*                                                                         *)
(* Conventions.                                                            *)
(*  - A Hail value that may be missing (and a Python value that may be     *)
(*    None) is an option: <<>> is missing, <<v>> is the value v.           *)
(*  - Python dicts are functions from string keys; {} is <<>>.             *)
(*  - Python lists and Hail arrays are sequences; index i of the code is   *)
(*    position i + 1 here.                                                 *)
(*  - Hail booleans are three-valued ("T", "F", "NA"); a filter keeps an   *)
(*    element only when its predicate is "T".                              *)
(*  - A genotype call is <<>> (missing) or a pair of allele indices.       *)
(*  - An allele frequency AC / AN is the pair <<AC, AN>>; AN = 0 is the    *)
(*    NaN / missing frequency, which compares false with everything.       *)
(***************************************************************************)
EXTENDS Integers, Sequences, FiniteSets, TLC

VARIABLES
    pc,                     \* position in the function being run
    error,                  \* option: the exception raised, if any
    args,                   \* the keyword arguments of the call
    samples,                \* mt columns and the entries of one variant row
    n_alleles,              \* hl.len(mt.alleles)
    in_autosome_or_par,     \* mt.locus.in_autosome_or_par()
    cut_data,               \* option: result of mt.aggregate_cols
    sample_group_filters,   \* list of (label, predicate)
    freq, freq_meta,        \* row field freq, global freq_meta
    pops,                   \* populations handed to popmax and faf
    popmax, faf, project_max,   \* derived row annotations
    downsamplings,          \* threshold list (argument, then result)
    order,                  \* ht.order_by(ht.r): sample numbers by rank
    downsampling            \* column annotation: option of [global_idx, pop_idx]

vars == <<pc, error, args, samples, n_alleles, in_autosome_or_par, cut_data,
          sample_group_filters, freq, freq_meta, pops, popmax, faf,
          project_max, downsamplings, order, downsampling>>

-----------------------------------------------------------------------------
(* Options, three-valued logic, small helpers *)

None == <<>>
Some(v) == <<v>>
IsDefined(o) == o # <<>>

And3(a, b) ==
    IF a = "F" \/ b = "F" THEN "F"
    ELSE IF a = "NA" \/ b = "NA" THEN "NA" ELSE "T"

Or3(a, b) ==
    IF a = "T" \/ b = "T" THEN "T"
    ELSE IF a = "NA" \/ b = "NA" THEN "NA" ELSE "F"

Not3(a) == IF a = "NA" THEN "NA" ELSE IF a = "T" THEN "F" ELSE "T"

Bool3(b) == IF b THEN "T" ELSE "F"

\* Hail ==, on two options
Eq3(a, b) == IF a = None \/ b = None THEN "NA" ELSE Bool3(a = b)

\* Hail set.contains(x), x an option
Contains3(S, o) == IF o = None THEN "NA" ELSE Bool3(o[1] \in S)

\* dict.get(k): missing when the key is absent
Get(d, k) == IF k \in DOMAIN d THEN Some(d[k]) ELSE None

\* d[k] = v on a Python dict
SetKey(d, k, v) == (k :> v) @@ d

Min(a, b) == IF a <= b THEN a ELSE b

RECURSIVE SumSeq(_)
SumSeq(s) == IF s = <<>> THEN 0 ELSE Head(s) + SumSeq(Tail(s))

\* The elements of a Python set or the keys of a dict, in iteration order
RECURSIVE SeqOf(_)
SeqOf(S) ==
    IF S = {} THEN <<>>
    ELSE LET x == CHOOSE y \in S : TRUE IN <<x>> \o SeqOf(S \ {x})

RECURSIVE Flatten(_)
Flatten(ss) == IF ss = <<>> THEN <<>> ELSE Head(ss) \o Flatten(Tail(ss))

Digit(d) ==
    CASE d = 0 -> "0" [] d = 1 -> "1" [] d = 2 -> "2" [] d = 3 -> "3"
      [] d = 4 -> "4" [] d = 5 -> "5" [] d = 6 -> "6" [] d = 7 -> "7"
      [] d = 8 -> "8" [] d = 9 -> "9"

\* Python str() of a non-negative int
RECURSIVE Str(_)
Str(n) == IF n < 10 THEN Digit(n) ELSE Str(n \div 10) \o Digit(n % 10)

\* list.insert(i, x)
ListInsert(s, i, x) ==
    LET k == Min(i, Len(s)) IN SubSeq(s, 1, k) \o <<x>> \o SubSeq(s, k + 1, Len(s))

\* a / b > c / d for frequencies; a NaN / missing frequency is never greater
AFGreater(f, g) == f[2] > 0 /\ g[2] > 0 /\ f[1] * g[2] > g[1] * f[2]

\* x.AF > 0
AFPositive(f) == f[2] > 0 /\ f[1] > 0

-----------------------------------------------------------------------------
(* hl.agg.call_stats over a list of calls *)

CountAllele(calls, a) ==
    SumSeq([i \in 1..Len(calls) |->
              (IF calls[i][1] = a THEN 1 ELSE 0) + (IF calls[i][2] = a THEN 1 ELSE 0)])

CountHom(calls, a) ==
    SumSeq([i \in 1..Len(calls) |->
              IF calls[i][1] = a /\ calls[i][2] = a THEN 1 ELSE 0])

\* AC, AF and homozygote_count hold one value per allele (allele a at a + 1)
call_stats(gts, n) ==
    LET called == SelectSeq(gts, LAMBDA g : g # <<>>)
        an == 2 * Len(called)
    IN  [AC |-> [a \in 1..n |-> CountAllele(called, a - 1)],
         AF |-> [a \in 1..n |-> <<CountAllele(called, a - 1), an>>],
         AN |-> an,
         homozygote_count |-> [a \in 1..n |-> CountHom(called, a - 1)]]

-----------------------------------------------------------------------------
(* popmax_expr *)

\* hl.zip(a, b): as long as the shorter array
Zip(a, b) == [i \in 1..Min(Len(a), Len(b)) |-> <<a[i], b[i]>>]

\* hl.map(lambda x: x[0].annotate(meta=x[1]), hl.zip(freq, freq_meta))
AnnotateMeta(fr, fm) ==
    LET z == Zip(fr, fm) IN [i \in 1..Len(z) |-> ("meta" :> z[i][2]) @@ z[i][1]]

\* Insert the pair x = <<AF, element>> into s, which is in non-increasing
\* order of AF, after every element whose AF is not smaller
InsertByAFDesc(s, x) ==
    LET before == {j \in 1..Len(s) : AFGreater(x[1], s[j][1])}
        k == IF before = {} THEN Len(s) + 1
             ELSE CHOOSE j \in before : \A l \in before : j <= l
    IN  SubSeq(s, 1, k - 1) \o <<x>> \o SubSeq(s, k, Len(s))

\* hl.sorted by decreasing AF, on pairs <<AF, element>>
RECURSIVE SortByAFDesc(_)
SortByAFDesc(s) ==
    IF s = <<>> THEN <<>>
    ELSE InsertByAFDesc(SortByAFDesc(SubSeq(s, 1, Len(s) - 1)), s[Len(s)])

\* popmax_filter without the test of the meta size
popmax_filter_any_size(f, pops_to_use) ==
    And3(And3(Eq3(Get(f.meta, "group"), Some("adj")),
              Contains3(pops_to_use, Get(f.meta, "pop"))),
         Bool3(f.AC > 0))

popmax_filter(f, pops_to_use) ==
    And3(And3(And3(Bool3(Cardinality(DOMAIN f.meta) = 2),
                   Eq3(Get(f.meta, "group"), Some("adj"))),
              Contains3(pops_to_use, Get(f.meta, "pop"))),
         Bool3(f.AC > 0))

popmax_expr(fr, fm, populations) ==
    LET annotated == AnnotateMeta(fr, fm)
        freq_filtered == SelectSeq(annotated, LAMBDA f : popmax_filter(f, populations) = "T")
        sorted_freqs == SortByAFDesc([i \in 1..Len(freq_filtered) |->
                                        <<freq_filtered[i].AF, freq_filtered[i]>>])
    IN  IF Len(sorted_freqs) > 0
        THEN Some([AC |-> sorted_freqs[1][2].AC,
                   AF |-> sorted_freqs[1][2].AF,
                   AN |-> sorted_freqs[1][2].AN,
                   homozygote_count |-> sorted_freqs[1][2].homozygote_count,
                   pop |-> sorted_freqs[1][2].meta["pop"]])
        ELSE None

-----------------------------------------------------------------------------
(* faf_expr *)

\* hl.experimental.filtering_allele_frequency: an engine function, kept as
\* the term of its arguments
filtering_allele_frequency(ac, an, ci) == [fn |-> "faf", AC |-> ac, AN |-> an, ci |-> ci]

\* faf_filter without the test of the locus
faf_filter_any_locus(f, in_auto_or_par, pops_to_use) ==
    LET size == Cardinality(DOMAIN f.meta)
        adj == Eq3(Get(f.meta, "group"), Some("adj"))
        has_sex == Bool3("sex" \in DOMAIN f.meta)
        pop_ok == Contains3(pops_to_use, Get(f.meta, "pop"))
    IN  Or3(Or3(And3(Bool3(size = 1), adj),
                And3(And3(Bool3(size = 2), adj), pop_ok)),
            Or3(And3(And3(Bool3(size = 2), adj), has_sex),
                And3(And3(And3(Bool3(size = 3), adj), pop_ok), has_sex)))

faf_filter(f, in_auto_or_par, pops_to_use) ==
    LET size == Cardinality(DOMAIN f.meta)
        adj == Eq3(Get(f.meta, "group"), Some("adj"))
        has_sex == Bool3("sex" \in DOMAIN f.meta)
        pop_ok == Contains3(pops_to_use, Get(f.meta, "pop"))
    IN  Or3(Or3(And3(Bool3(size = 1), adj),
                And3(And3(Bool3(size = 2), adj), pop_ok)),
            And3(Not3(Bool3(in_auto_or_par)),
                 Or3(And3(And3(Bool3(size = 2), adj), has_sex),
                     And3(And3(And3(Bool3(size = 3), adj), pop_ok), has_sex))))

faf_expr(fr, fm, in_auto_or_par, populations) ==
    LET annotated == AnnotateMeta(fr, fm)
        freqs_to_use == SelectSeq(annotated,
                           LAMBDA f : faf_filter(f, in_auto_or_par, populations) = "T")
    IN  [i \in 1..Len(freqs_to_use) |->
           [meta |-> freqs_to_use[i].meta,
            faf95 |-> filtering_allele_frequency(freqs_to_use[i].AC, freqs_to_use[i].AN, 95),
            faf99 |-> filtering_allele_frequency(freqs_to_use[i].AC, freqs_to_use[i].AN, 99)]]

-----------------------------------------------------------------------------
(* project_max_expr *)

\* hl.array(hl.agg.group_by(project_expr, hl.agg.call_stats(gt_expr, alleles_expr)))
project_call_stats(smp, n) ==
    LET keys == SeqOf({smp[i].project_id : i \in 1..Len(smp)})
    IN  [k \in 1..Len(keys) |->
           <<keys[k],
             call_stats([j \in 1..Len(SelectSeq(smp, LAMBDA x : x.project_id = keys[k])) |->
                           SelectSeq(smp, LAMBDA x : x.project_id = keys[k])[j].GT], n)>>]

\* project_max_allele without the [:n_projects] slice
project_max_allele_all(project_cs, ai, n_projects) ==
    LET with_af == SelectSeq(project_cs, LAMBDA x : AFPositive(x[2].AF[ai + 1]))
        sorted == SortByAFDesc([i \in 1..Len(with_af) |->
                                  <<with_af[i][2].AF[ai + 1], with_af[i]>>])
    IN  [i \in 1..Len(sorted) |->
           LET x == sorted[i][2] IN
           [AC |-> <<x[2].AC[1], x[2].AC[ai + 1]>>,
            AF |-> <<x[2].AF[1], x[2].AF[ai + 1]>>,
            AN |-> x[2].AN,
            homozygote_count |-> <<x[2].homozygote_count[1], x[2].homozygote_count[ai + 1]>>,
            project |-> x[1]]]

\* The list for allele ai
project_max_allele(project_cs, ai, n_projects) ==
    LET with_af == SelectSeq(project_cs, LAMBDA x : AFPositive(x[2].AF[ai + 1]))
        sorted == SortByAFDesc([i \in 1..Len(with_af) |->
                                  <<with_af[i][2].AF[ai + 1], with_af[i]>>])
        top == SubSeq(sorted, 1, Min(n_projects, Len(sorted)))
    IN  [i \in 1..Len(top) |->
           LET x == top[i][2] IN
           [AC |-> <<x[2].AC[1], x[2].AC[ai + 1]>>,
            AF |-> <<x[2].AF[1], x[2].AF[ai + 1]>>,
            AN |-> x[2].AN,
            homozygote_count |-> <<x[2].homozygote_count[1], x[2].homozygote_count[ai + 1]>>,
            project |-> x[1]]]

project_max_expr(smp, n, n_projects) ==
    LET project_cs == project_call_stats(smp, n)
    IN  IF n > 1
        THEN Some([k \in 1..(n - 1) |-> project_max_allele(project_cs, k, n_projects)])
        ELSE None

-----------------------------------------------------------------------------
(* _generate_downsamplings_cumulative *)

Range(f) == {f[x] : x \in DOMAIN f}

\* sorted() of a list of ints
RECURSIVE SortedInts(_)
SortedInts(s) ==
    IF s = <<>> THEN <<>>
    ELSE LET rest == SortedInts(Tail(s))
             k == Cardinality({j \in 1..Len(rest) : rest[j] < Head(s)})
         IN  SubSeq(rest, 1, k) \o <<Head(s)>> \o SubSeq(rest, k + 1, Len(rest))

\* Counter(pop_data): one key per distinct value, None (missing) included
pop_counter(smp) ==
    [p \in {smp[i].pop : i \in 1..Len(smp)} |->
        Cardinality({i \in 1..Len(smp) : smp[i].pop = p})]

\* list(pops.values())
counter_values(c) == LET keys == SeqOf(DOMAIN c) IN [k \in 1..Len(keys) |-> c[keys[k]]]

\* cap_and_sort with x < sum(pops.values())
cap_and_sort_below(ds, c) ==
    SortedInts(SelectSeq(ds, LAMBDA x : x < SumSeq(counter_values(c))))

\* sorted([x for x in downsamplings if x <= sum(pops.values())])
cap_and_sort(ds, c) ==
    SortedInts(SelectSeq(ds, LAMBDA x : x <= SumSeq(counter_values(c))))

\* The threshold list returned for the requested list ds
downsampling_thresholds(smp, ds) ==
    LET c == pop_counter(smp)
        merged == SeqOf(Range(ds \o counter_values(c)))
    IN  cap_and_sort(cap_and_sort(merged, c), c)

\* ht.order_by(ht.r).add_index('global_idx'), for the sample order ord
ordered_ht(smp, ord) ==
    [k \in 1..Len(ord) |-> [s |-> ord[k], pop |-> smp[ord[k]].pop, global_idx |-> k - 1]]

\* ht.filter(ht.meta.pop == pop).add_index('pop_idx'); pop is a Counter key
pop_ht(ht, pop) ==
    LET rows == SelectSeq(ht, LAMBDA r : Eq3(r.pop, pop) = "T")
    IN  [j \in 1..Len(rows) |-> ("pop_idx" :> (j - 1)) @@ rows[j]]

\* The union of the per-population tables
global_ht(smp, ord) ==
    LET keys == SeqOf(DOMAIN pop_counter(smp))
    IN  Flatten([k \in 1..Len(keys) |-> pop_ht(ordered_ht(smp, ord), keys[k])])

\* mt.annotate_cols(downsampling=global_ht[mt.s])
downsampling_col(smp, ord) ==
    LET g == global_ht(smp, ord)
    IN  [i \in 1..Len(smp) |->
           IF \E k \in 1..Len(g) : g[k].s = i
           THEN LET r == g[CHOOSE k \in 1..Len(g) : g[k].s = i]
                IN  Some([global_idx |-> r.global_idx, pop_idx |-> r.pop_idx])
           ELSE None]

-----------------------------------------------------------------------------
(* generate_frequency_data: sample groups *)

aggregate_cols(smp, by_platform) ==
    LET n == Len(smp)
        defined_pops == {smp[i].pop[1] : i \in {j \in 1..n : IsDefined(smp[j].pop)}}
    IN  [pop |-> [p \in defined_pops |-> Cardinality({i \in 1..n : smp[i].pop = Some(p)})],
         sex |-> {smp[i].sex[1] : i \in {j \in 1..n : IsDefined(smp[j].sex)}},
         subpop |-> {[subpop |-> smp[i].subpop[1], pop |-> smp[i].pop[1]] :
                       i \in {j \in 1..n : IsDefined(smp[j].subpop) /\ IsDefined(smp[j].pop)}}]
        @@ (IF by_platform
            THEN ("platform" :> {smp[i].qc_platform[1] :
                                   i \in {j \in 1..n : IsDefined(smp[j].qc_platform)}})
            ELSE <<>>)

\* A predicate is a conjunction of tests, one per key: column == value for a
\* metadata column, downsampling.<index> < value for an index
Filter(label, pred) == [label |-> label, pred |-> pred]

metadata_filters(cut) ==
    LET pop_keys == SeqOf(DOMAIN cut.pop)
        sexes == SeqOf(cut.sex)
        subpops == SeqOf(cut.subpop)
    IN  <<Filter(<<>>, <<>>)>>
        \o [i \in 1..Len(pop_keys) |->
              Filter("pop" :> pop_keys[i], "pop" :> pop_keys[i])]
        \o [i \in 1..Len(sexes) |->
              Filter("sex" :> sexes[i], "sex" :> sexes[i])]
        \o Flatten([i \in 1..Len(sexes) |-> [j \in 1..Len(pop_keys) |->
              Filter(("pop" :> pop_keys[j]) @@ ("sex" :> sexes[i]),
                     ("sex" :> sexes[i]) @@ ("pop" :> pop_keys[j]))]])
        \o [i \in 1..Len(subpops) |->
              Filter(("subpop" :> subpops[i].subpop) @@ ("pop" :> subpops[i].pop),
                     "subpop" :> subpops[i].subpop)]

platform_filters(cut) ==
    LET platforms == SeqOf(cut.platform)
    IN  [i \in 1..Len(platforms) |->
           Filter("platform" :> Str(platforms[i]), "qc_platform" :> platforms[i])]

downsampling_filters(cut, dss) ==
    LET pop_keys == SeqOf(DOMAIN cut.pop)
    IN  [i \in 1..Len(dss) |->
           Filter(("downsampling" :> Str(dss[i])) @@ ("pop" :> "global"),
                  "global_idx" :> dss[i])]
        \o Flatten([i \in 1..Len(dss) |->
              LET with_enough == SelectSeq(pop_keys, LAMBDA p : dss[i] <= cut.pop[p])
              IN  [j \in 1..Len(with_enough) |->
                     Filter(("downsampling" :> Str(dss[i])) @@ ("pop" :> with_enough[j]),
                            ("pop_idx" :> dss[i]) @@ ("pop" :> with_enough[j]))]])

build_sample_group_filters(cut, by_platform, calc_downsampling, dss) ==
    metadata_filters(cut)
    \o (IF by_platform THEN platform_filters(cut) ELSE <<>>)
    \o (IF calc_downsampling THEN downsampling_filters(cut, dss) ELSE <<>>)

\* One test of a predicate on a sample s with downsampling annotation d
test3(key, value, s, d) ==
    IF key \in {"global_idx", "pop_idx"}
    THEN IF d = None THEN "NA" ELSE Bool3(d[1][key] < value)
    ELSE Eq3(s[key], Some(value))

\* group_membership: the predicate on a sample
group_membership(pred, s, d) ==
    LET results == {test3(k, pred[k], s, d) : k \in DOMAIN pred}
    IN  IF "F" \in results THEN "F" ELSE IF "NA" \in results THEN "NA" ELSE "T"

-----------------------------------------------------------------------------
(* generate_frequency_data: get_meta_expressions, get_freq_expressions *)

\* get_meta_expressions with raw inserted first
get_meta_expressions_raw_first(filters) ==
    ListInsert([i \in 1..Len(filters) |-> SetKey(filters[i].label, "group", "adj")],
               0, "group" :> "raw")

get_meta_expressions(filters) ==
    ListInsert([i \in 1..Len(filters) |-> SetKey(filters[i].label, "group", "adj")],
               1, "group" :> "raw")

\* The labels after get_meta_expressions wrote 'group' into each of them
labels_after_meta(filters) ==
    [i \in 1..Len(filters) |->
        Filter(SetKey(filters[i].label, "group", "adj"), filters[i].pred)]

\* The calls of the samples i with keep[i], in column order
gts_where(smp, keep) ==
    LET kept == SelectSeq([i \in 1..Len(smp) |-> i], LAMBDA i : keep[i])
    IN  [j \in 1..Len(kept) |-> smp[kept[j]].GT]

adj_call_stats(smp, dcol, pred, n) ==
    call_stats(gts_where(smp, [i \in 1..Len(smp) |->
        And3(group_membership(pred, smp[i], dcol[i]), Bool3(smp[i].adj)) = "T"]), n)

\* raw_call_stats under the adj filter
raw_call_stats_adj_only(smp, n) ==
    call_stats(gts_where(smp, [i \in 1..Len(smp) |-> smp[i].adj]), n)

raw_call_stats(smp, n) == call_stats(gts_where(smp, [i \in 1..Len(smp) |-> TRUE]), n)

\* cs.annotate(AC=cs.AC[1], AF=cs.AF[1], homozygote_count=cs.homozygote_count[1])
alt_allele_stats(cs) ==
    [AC |-> cs.AC[2], AF |-> cs.AF[2], AN |-> cs.AN,
     homozygote_count |-> cs.homozygote_count[2]]

get_freq_expressions(smp, dcol, filters, n) ==
    LET adj_freq_expressions ==
            [i \in 1..Len(filters) |-> adj_call_stats(smp, dcol, filters[i].pred, n)]
        with_raw == SubSeq(adj_freq_expressions, 1, 1)
                    \o <<raw_call_stats(smp, n)>>
                    \o SubSeq(adj_freq_expressions, 2, Len(adj_freq_expressions))
    IN  [i \in 1..Len(with_raw) |-> alt_allele_stats(with_raw[i])]

\* pops = set(cut_data.pop.keys()); [pops.discard(x) for x in pops_to_remove_for_popmax]
popmax_populations(cut, to_remove) == DOMAIN cut.pop \ Range(to_remove)

-----------------------------------------------------------------------------
(* Inputs *)

NSamples == 2

\* Sample metadata seen in a cohort: two populations that share a
\* subpopulation name, and a sample with no population assigned
MetaProfiles ==
    << [pop |-> Some("afr"), sex |-> Some("male"), subpop |-> Some("x"),
        qc_platform |-> Some(1), project_id |-> Some("p1")],
       [pop |-> Some("nfe"), sex |-> Some("female"), subpop |-> Some("x"),
        qc_platform |-> Some(2), project_id |-> Some("p2")],
       [pop |-> None, sex |-> Some("male"), subpop |-> None,
        qc_platform |-> None, project_id |-> Some("p1")] >>

\* The entry of a sample at the variant: its call and its adj flag
Entries ==
    << [GT |-> <<>>, adj |-> FALSE],
       [GT |-> <<0, 0>>, adj |-> TRUE],
       [GT |-> <<0, 1>>, adj |-> TRUE],
       [GT |-> <<0, 1>>, adj |-> FALSE],
       [GT |-> <<1, 1>>, adj |-> TRUE] >>

SampleKind(k) ==
    MetaProfiles[((k - 1) \div Len(Entries)) + 1] @@ Entries[((k - 1) % Len(Entries)) + 1]

NumKinds == Len(MetaProfiles) * Len(Entries)

\* Columns are unordered: one representative per multiset of samples
Cohorts ==
    {[i \in 1..NSamples |-> SampleKind(c[i])] :
        c \in {d \in [1..NSamples -> 1..NumKinds] :
                 \A i \in 1..(NSamples - 1) : d[i] <= d[i + 1]}}

\* The options that shape the sample groups in every combination; of the two
\* optional annotations, one is computed per call
Arguments ==
    {a \in [calculate_faf : BOOLEAN,
            calculate_by_platform : BOOLEAN,
            calculate_downsampling : BOOLEAN,
            calculate_project_max : BOOLEAN,
            pops_to_remove_for_popmax : {None, Some(<<>>), Some(<<"afr">>)}] :
        a.calculate_faf # a.calculate_project_max}

\* n_projects: the default of project_max_expr and the value the pipeline passes
N_PROJECTS == 5

-----------------------------------------------------------------------------
(* generate_frequency_data *)

Init ==
    /\ pc = "start"
    /\ error = None
    /\ args \in Arguments
    /\ samples \in Cohorts
    /\ n_alleles = 2
    /\ in_autosome_or_par \in BOOLEAN
    /\ cut_data = None
    /\ sample_group_filters = <<>>
    /\ freq = <<>>
    /\ freq_meta = <<>>
    /\ pops = {}
    /\ popmax = None
    /\ faf = None
    /\ project_max = None
    /\ downsamplings = <<>>
    /\ order = <<>>
    /\ downsampling = [i \in 1..NSamples |-> None]

\* if calculate_downsampling: the call passes mt alone, and Python raises
\* TypeError for the missing positional argument 'downsamplings'
CallGenerateDownsamplings ==
    /\ pc = "start"
    /\ IF args.calculate_downsampling
       THEN pc' = "error" /\ error' = Some("TypeError")
       ELSE pc' = "aggregate_cols" /\ UNCHANGED error
    /\ UNCHANGED <<args, samples, n_alleles, in_autosome_or_par, cut_data,
                   sample_group_filters, freq, freq_meta, pops, popmax, faf,
                   project_max, downsamplings, order, downsampling>>

\* cut_data, sample_group_filters, mt.select_cols
BuildSampleGroups ==
    /\ pc = "aggregate_cols"
    /\ LET cut == aggregate_cols(samples, args.calculate_by_platform)
       IN  /\ cut_data' = Some(cut)
           /\ sample_group_filters' =
                 build_sample_group_filters(cut, args.calculate_by_platform,
                                            args.calculate_downsampling, downsamplings)
    /\ pc' = "freq"
    /\ UNCHANGED <<error, args, samples, n_alleles, in_autosome_or_par, freq,
                   freq_meta, pops, popmax, faf, project_max, downsamplings,
                   order, downsampling>>

\* frequency_expression, global_expression, annotate_rows, annotate_globals
\* (the age histograms are two further row fields that nothing reads later
\* and are left out)
AnnotateFreq ==
    /\ pc = "freq"
    /\ freq' = get_freq_expressions(samples, downsampling, sample_group_filters, n_alleles)
    /\ freq_meta' = get_meta_expressions(sample_group_filters)
    /\ sample_group_filters' = labels_after_meta(sample_group_filters)
    /\ pc' = "popmax"
    /\ UNCHANGED <<error, args, samples, n_alleles, in_autosome_or_par, cut_data,
                   pops, popmax, faf, project_max, downsamplings, order, downsampling>>

\* pops, then popmax; iterating the default None raises TypeError
AnnotatePopmax ==
    /\ pc = "popmax"
    /\ IF args.pops_to_remove_for_popmax = None
       THEN /\ pc' = "error"
            /\ error' = Some("TypeError")
            /\ pops' = DOMAIN cut_data[1].pop
            /\ UNCHANGED popmax
       ELSE /\ pops' = popmax_populations(cut_data[1], args.pops_to_remove_for_popmax[1])
            /\ popmax' = popmax_expr(freq, freq_meta, pops')
            /\ pc' = "faf"
            /\ UNCHANGED error
    /\ UNCHANGED <<args, samples, n_alleles, in_autosome_or_par, cut_data,
                   sample_group_filters, freq, freq_meta, faf, project_max,
                   downsamplings, order, downsampling>>

AnnotateFaf ==
    /\ pc = "faf"
    /\ faf' = IF args.calculate_faf
              THEN Some(faf_expr(freq, freq_meta, in_autosome_or_par, pops))
              ELSE None
    /\ pc' = "project_max"
    /\ UNCHANGED <<error, args, samples, n_alleles, in_autosome_or_par, cut_data,
                   sample_group_filters, freq, freq_meta, pops, popmax,
                   project_max, downsamplings, order, downsampling>>

\* project_max_expr(mt.project_id, mt.GT, mt.alleles, 5)[0]; then return
AnnotateProjectMax ==
    /\ pc = "project_max"
    /\ project_max' =
          IF args.calculate_project_max
          THEN LET pm == project_max_expr(samples, n_alleles, N_PROJECTS)
               IN  IF pm = None THEN None ELSE Some(pm[1][1])
          ELSE None
    /\ pc' = "done"
    /\ UNCHANGED <<error, args, samples, n_alleles, in_autosome_or_par, cut_data,
                   sample_group_filters, freq, freq_meta, pops, popmax, faf,
                   downsamplings, order, downsampling>>

Next ==
    \/ CallGenerateDownsamplings
    \/ BuildSampleGroups
    \/ AnnotateFreq
    \/ AnnotatePopmax
    \/ AnnotateFaf
    \/ AnnotateProjectMax

Spec == Init /\ [][Next]_vars

-----------------------------------------------------------------------------
(* popmax_expr and faf_expr called on arbitrary frequency arrays *)

ExprLen == 2

MetaChoices ==
    { [group |-> "adj"],
      [group |-> "raw"],
      [group |-> "adj", pop |-> "afr"],
      [group |-> "adj", pop |-> "nfe"],
      [group |-> "adj", sex |-> "male"],
      [group |-> "adj", pop |-> "afr", sex |-> "male"],
      [group |-> "adj", pop |-> "afr", subpop |-> "x"],
      [group |-> "adj", platform |-> "1"],
      [group |-> "adj", pop |-> "global", downsampling |-> "1"] }

\* Call statistics of the alternate allele: none, one of four, two of two
StatChoices ==
    { [AC |-> 0, AF |-> <<0, 2>>, AN |-> 2, homozygote_count |-> 0],
      [AC |-> 1, AF |-> <<1, 4>>, AN |-> 4, homozygote_count |-> 0],
      [AC |-> 2, AF |-> <<2, 2>>, AN |-> 2, homozygote_count |-> 1] }

PopulationChoices == {{"afr"}, {"afr", "nfe"}}

InitExpr(start, loci) ==
    /\ pc = start
    /\ error = None
    /\ args = <<>>
    /\ samples = <<>>
    /\ n_alleles = 2
    /\ in_autosome_or_par \in loci
    /\ cut_data = None
    /\ sample_group_filters = <<>>
    /\ \E n \in 0..ExprLen :
          /\ freq \in [1..n -> StatChoices]
          /\ freq_meta \in [1..n -> MetaChoices]
    /\ pops \in PopulationChoices
    /\ popmax = None
    /\ faf = None
    /\ project_max = None
    /\ downsamplings = <<>>
    /\ order = <<>>
    /\ downsampling = <<>>

CallPopmaxExpr ==
    /\ pc = "popmax_expr"
    /\ popmax' = popmax_expr(freq, freq_meta, pops)
    /\ pc' = "returned"
    /\ UNCHANGED <<error, args, samples, n_alleles, in_autosome_or_par, cut_data,
                   sample_group_filters, freq, freq_meta, pops, faf, project_max,
                   downsamplings, order, downsampling>>

InitPopmax == InitExpr("popmax_expr", {TRUE})

SpecPopmax == InitPopmax /\ [][CallPopmaxExpr]_vars

CallFafExpr ==
    /\ pc = "faf_expr"
    /\ faf' = Some(faf_expr(freq, freq_meta, in_autosome_or_par, pops))
    /\ pc' = "returned"
    /\ UNCHANGED <<error, args, samples, n_alleles, in_autosome_or_par, cut_data,
                   sample_group_filters, freq, freq_meta, pops, popmax, project_max,
                   downsamplings, order, downsampling>>

InitFaf == InitExpr("faf_expr", BOOLEAN)

SpecFaf == InitFaf /\ [][CallFafExpr]_vars

-----------------------------------------------------------------------------
(* project_max_expr called on the samples of one row *)

NProjectSamples == 3

Projects == {"p1", "p2", "p3"}

\* The calls over n alleles, and the missing call
Calls(n) == {<<>>} \cup {c \in (0..(n - 1)) \X (0..(n - 1)) : c[1] <= c[2]}

ProjectCohorts(n) ==
    LET kinds == SeqOf([project_id : {Some(p) : p \in Projects}, GT : Calls(n)])
    IN  {[i \in 1..NProjectSamples |-> kinds[c[i]]] :
            c \in {d \in [1..NProjectSamples -> 1..Len(kinds)] :
                     \A i \in 1..(NProjectSamples - 1) : d[i] <= d[i + 1]}}

InitProjectMax ==
    /\ pc = "project_max_expr"
    /\ error = None
    /\ args \in [n_projects : {1, 2, N_PROJECTS}]
    /\ n_alleles \in 1..3
    /\ samples \in ProjectCohorts(n_alleles)
    /\ in_autosome_or_par = TRUE
    /\ cut_data = None
    /\ sample_group_filters = <<>>
    /\ freq = <<>>
    /\ freq_meta = <<>>
    /\ pops = {}
    /\ popmax = None
    /\ faf = None
    /\ project_max = None
    /\ downsamplings = <<>>
    /\ order = <<>>
    /\ downsampling = <<>>

CallProjectMaxExpr ==
    /\ pc = "project_max_expr"
    /\ project_max' = project_max_expr(samples, n_alleles, args.n_projects)
    /\ pc' = "returned"
    /\ UNCHANGED <<error, args, samples, n_alleles, in_autosome_or_par, cut_data,
                   sample_group_filters, freq, freq_meta, pops, popmax, faf,
                   downsamplings, order, downsampling>>

SpecProjectMax == InitProjectMax /\ [][CallProjectMaxExpr]_vars

-----------------------------------------------------------------------------
(* _generate_downsamplings_cumulative(mt, downsamplings) called with a       *)
(* threshold list, followed by the construction of the downsampling groups   *)

NDownSamples == 3

MaxThreshold == 4

MaxRequested == 2

PopValues == <<None, Some("afr"), Some("nfe")>>

\* Columns that carry a population only, one representative per multiset
DownsamplingCohorts ==
    {[i \in 1..NDownSamples |->
        [pop |-> PopValues[c[i]], sex |-> None, subpop |-> None, qc_platform |-> None]] :
        c \in {d \in [1..NDownSamples -> 1..Len(PopValues)] :
                 \A i \in 1..(NDownSamples - 1) : d[i] <= d[i + 1]}}

RequestedLists == UNION {[1..n -> 0..MaxThreshold] : n \in 0..MaxRequested}

SampleOrders(n) == {f \in [1..n -> 1..n] : \A i, j \in 1..n : f[i] = f[j] => i = j}

InitDownsampling ==
    /\ pc = "thresholds"
    /\ error = None
    /\ args \in [downsamplings : RequestedLists]
    /\ samples \in DownsamplingCohorts
    /\ n_alleles = 2
    /\ in_autosome_or_par = TRUE
    /\ cut_data = None
    /\ sample_group_filters = <<>>
    /\ freq = <<>>
    /\ freq_meta = <<>>
    /\ pops = {}
    /\ popmax = None
    /\ faf = None
    /\ project_max = None
    /\ downsamplings = args.downsamplings
    /\ order = <<>>
    /\ downsampling = [i \in 1..NDownSamples |-> None]

\* pop_data, pops and the three assignments to downsamplings
ComputeThresholds ==
    /\ pc = "thresholds"
    /\ downsamplings' = downsampling_thresholds(samples, downsamplings)
    /\ pc' = "order"
    /\ UNCHANGED <<error, args, samples, n_alleles, in_autosome_or_par, cut_data,
                   sample_group_filters, freq, freq_meta, pops, popmax, faf,
                   project_max, order, downsampling>>

\* ht.annotate(r=hl.rand_unif(0, 1)); ht.order_by(ht.r): any order of the samples
OrderByRandom ==
    /\ pc = "order"
    /\ order' \in SampleOrders(Len(samples))
    /\ pc' = "index"
    /\ UNCHANGED <<error, args, samples, n_alleles, in_autosome_or_par, cut_data,
                   sample_group_filters, freq, freq_meta, pops, popmax, faf,
                   project_max, downsamplings, downsampling>>

\* The loop over pops, key_by and annotate_cols. For the Counter key None the
\* filter compares a column with Python None: the engine either refuses to
\* build the expression or evaluates the comparison to missing.
IndexByPopulation ==
    /\ pc = "index"
    /\ \/ /\ None \in DOMAIN pop_counter(samples)
          /\ pc' = "error"
          /\ error' = Some("ExpressionException")
          /\ UNCHANGED downsampling
       \/ /\ downsampling' = downsampling_col(samples, order)
          /\ pc' = "groups"
          /\ UNCHANGED error
    /\ UNCHANGED <<args, samples, n_alleles, in_autosome_or_par, cut_data,
                   sample_group_filters, freq, freq_meta, pops, popmax, faf,
                   project_max, downsamplings, order>>

\* cut_data and the sample groups of a run with calculate_downsampling
BuildDownsamplingGroups ==
    /\ pc = "groups"
    /\ LET cut == aggregate_cols(samples, FALSE)
       IN  /\ cut_data' = Some(cut)
           /\ sample_group_filters' =
                 build_sample_group_filters(cut, FALSE, TRUE, downsamplings)
    /\ pc' = "returned"
    /\ UNCHANGED <<error, args, samples, n_alleles, in_autosome_or_par, freq,
                   freq_meta, pops, popmax, faf, project_max, downsamplings,
                   order, downsampling>>

NextDownsampling ==
    \/ ComputeThresholds
    \/ OrderByRandom
    \/ IndexByPopulation
    \/ BuildDownsamplingGroups

SpecDownsampling == InitDownsampling /\ [][NextDownsampling]_vars

-----------------------------------------------------------------------------
(* Properties of popmax_expr *)

\* f >= g as frequencies with a non-zero allele number
AFAtLeast(f, g) == f[1] * g[2] >= g[1] * f[2]

\* The records the popmax may be taken from: adj group, one further key pop,
\* an allowed population, a non-zero allele count
PopmaxEligible ==
    {i \in 1..Len(freq) :
        /\ DOMAIN freq_meta[i] = {"group", "pop"}
        /\ freq_meta[i]["group"] = "adj"
        /\ freq_meta[i]["pop"] \in pops
        /\ freq[i].AC > 0}

\* C1: popmax_expr returns the statistics and the population of an eligible
\* record whose AF is at least the AF of every eligible record, and missing
\* when no record is eligible.
C1_PopmaxIsMaxOfEligible ==
    pc = "returned" =>
        IF PopmaxEligible = {}
        THEN popmax = None
        ELSE /\ popmax # None
             /\ \E i \in PopmaxEligible :
                   /\ popmax[1] = [AC |-> freq[i].AC, AF |-> freq[i].AF, AN |-> freq[i].AN,
                                   homozygote_count |-> freq[i].homozygote_count,
                                   pop |-> freq_meta[i]["pop"]]
                   /\ \A j \in PopmaxEligible : AFAtLeast(freq[i].AF, freq[j].AF)

\* Two eligible records of different AF, the larger one second
C1_Witness ==
    /\ pc = "returned"
    /\ popmax # None
    /\ \E i, j \in PopmaxEligible : i < j /\ AFGreater(freq[j].AF, freq[i].AF)

-----------------------------------------------------------------------------
(* Properties of faf_expr *)

\* The records that get a filtering allele frequency
FafEligible ==
    {i \in 1..Len(freq) :
        LET m == freq_meta[i] IN
        /\ "group" \in DOMAIN m
        /\ m["group"] = "adj"
        /\ \/ DOMAIN m = {"group"}
           \/ DOMAIN m = {"group", "pop"} /\ m["pop"] \in pops
           \/ ~in_autosome_or_par /\ DOMAIN m = {"group", "sex"}
           \/ ~in_autosome_or_par /\ DOMAIN m = {"group", "pop", "sex"} /\ m["pop"] \in pops}

\* C4: faf_expr returns, in freq order, one entry (meta, faf95, faf99 from the
\* record's AC and AN) per eligible record and nothing else.
C4_FafEntriesAreEligibleRecords ==
    pc = "returned" =>
        /\ faf # None
        /\ Len(faf[1]) = Cardinality(FafEligible)
        /\ \E f \in [1..Len(faf[1]) -> 1..Len(freq)] :
              /\ \A k, l \in 1..Len(faf[1]) : k < l => f[k] < f[l]
              /\ {f[k] : k \in 1..Len(faf[1])} = FafEligible
              /\ \A k \in 1..Len(faf[1]) :
                    /\ faf[1][k].meta = freq_meta[f[k]]
                    /\ faf[1][k].faf95 = [fn |-> "faf", AC |-> freq[f[k]].AC,
                                           AN |-> freq[f[k]].AN, ci |-> 95]
                    /\ faf[1][k].faf99 = [fn |-> "faf", AC |-> freq[f[k]].AC,
                                           AN |-> freq[f[k]].AN, ci |-> 99]

\* Off the autosomes a per-sex record gets an entry, after a record that
\* gets none
C4_Witness ==
    /\ pc = "returned"
    /\ ~in_autosome_or_par
    /\ \E i, j \in 1..Len(freq) :
          /\ i < j
          /\ i \notin FafEligible
          /\ j \in FafEligible
          /\ "sex" \in DOMAIN freq_meta[j]
    /\ Len(faf[1]) >= 1

-----------------------------------------------------------------------------
(* Counting calls directly, for the properties below *)

\* Occurrences of allele a in the calls of the samples S
AlleleCountIn(S, a) ==
    Cardinality({x \in S \X {1, 2} : samples[x[1]].GT # <<>> /\ samples[x[1]].GT[x[2]] = a})

\* Samples of S homozygous for allele a
HomCountIn(S, a) == Cardinality({i \in S : samples[i].GT = <<a, a>>})

\* Twice the called samples of S
AlleleNumberIn(S) == 2 * Cardinality({i \in S : samples[i].GT # <<>>})

AllSamples == 1..Len(samples)

-----------------------------------------------------------------------------
(* Properties of project_max_expr *)

ProjectSamples(p) == {i \in AllSamples : samples[i].project_id = Some(p)}

ProjectAF(p, a) == <<AlleleCountIn(ProjectSamples(p), a), AlleleNumberIn(ProjectSamples(p))>>

ProjectsWithAllele(a) == {p \in Projects : AFPositive(ProjectAF(p, a))}

\* The list L of allele ai is the top n_projects of the projects with AF > 0
ProjectMaxListOk(L, ai) ==
    /\ Len(L) = Min(args.n_projects, Cardinality(ProjectsWithAllele(ai)))
    /\ \A k \in 1..Len(L) :
          /\ L[k].project \in {Some(p) : p \in ProjectsWithAllele(ai)}
          /\ LET S == ProjectSamples(L[k].project[1]) IN
             /\ L[k].AC = <<AlleleCountIn(S, 0), AlleleCountIn(S, ai)>>
             /\ L[k].AF = << <<AlleleCountIn(S, 0), AlleleNumberIn(S)>>,
                             <<AlleleCountIn(S, ai), AlleleNumberIn(S)>> >>
             /\ L[k].homozygote_count = <<HomCountIn(S, 0), HomCountIn(S, ai)>>
             /\ L[k].AN = AlleleNumberIn(S)
    /\ \A k, l \in 1..Len(L) :
          k < l => L[k].project # L[l].project /\ AFAtLeast(L[k].AF[2], L[l].AF[2])
    /\ \A p \in ProjectsWithAllele(ai) :
          (\A k \in 1..Len(L) : L[k].project # Some(p))
             => \A k \in 1..Len(L) : AFAtLeast(L[k].AF[2], ProjectAF(p, ai))

\* C3: per non-reference allele, project_max_expr lists at most n_projects
\* projects, all with AF > 0 for the allele, by non-increasing AF, leaving out
\* no project of larger AF, each entry pairing the reference and alternate
\* statistics of its project; the result is missing without such an allele.
C3_ProjectMaxTopN ==
    pc = "returned" =>
        IF n_alleles <= 1
        THEN project_max = None
        ELSE /\ project_max # None
             /\ Len(project_max[1]) = n_alleles - 1
             /\ \A ai \in 1..(n_alleles - 1) : ProjectMaxListOk(project_max[1][ai], ai)

\* More projects carry the allele than are kept, and the kept ones differ in AF
C3_Witness ==
    /\ pc = "returned"
    /\ n_alleles = 3
    /\ \E ai \in 1..2 :
          /\ Cardinality(ProjectsWithAllele(ai)) > args.n_projects
          /\ Len(project_max[1][ai]) = 2
          /\ AFGreater(project_max[1][ai][1].AF[2], project_max[1][ai][2].AF[2])

-----------------------------------------------------------------------------
(* Properties of generate_frequency_data *)

\* The alternate-allele statistics of the calls of the samples S
StatsIn(S) ==
    [AC |-> AlleleCountIn(S, 1),
     AF |-> <<AlleleCountIn(S, 1), AlleleNumberIn(S)>>,
     AN |-> AlleleNumberIn(S),
     homozygote_count |-> HomCountIn(S, 1)]

AdjSamples == {i \in AllSamples : samples[i].adj}

\* The samples a predicate on metadata columns selects
SelectedBy(pred) == {i \in AllSamples : \A k \in DOMAIN pred : samples[i][k] = Some(pred[k])}

FreqAnnotated == freq_meta # <<>>

\* C2: freq and freq_meta have one entry per sample group plus one; entry 0
\* is the adj statistics of all samples, entry 1 the raw statistics, entry
\* i >= 2 the adj statistics and the label of sample group i - 1.
C2_FreqAlignedWithMeta ==
    FreqAnnotated =>
        /\ Len(freq) = Len(sample_group_filters) + 1
        /\ Len(freq_meta) = Len(sample_group_filters) + 1
        /\ freq_meta[1] = [group |-> "adj"]
        /\ freq[1] = StatsIn(AdjSamples)
        /\ freq_meta[2] = [group |-> "raw"]
        /\ freq[2] = StatsIn(AllSamples)
        /\ \A i \in 3..Len(freq) :
              /\ freq_meta[i] = sample_group_filters[i - 1].label
              /\ freq_meta[i]["group"] = "adj"
              /\ freq[i] = StatsIn(SelectedBy(sample_group_filters[i - 1].pred) \cap AdjSamples)

\* A run by platform whose groups differ in their statistics
C2_Witness ==
    /\ pc = "done"
    /\ args.calculate_by_platform
    /\ \E i \in 3..Len(freq) :
          /\ "platform" \in DOMAIN freq_meta[i]
          /\ freq[i].AC > 0
          /\ freq[i] # freq[1]
          /\ freq[i] # freq[2]

LeqStats(f, g) ==
    /\ f.AC <= g.AC
    /\ f.AN <= g.AN
    /\ f.homozygote_count <= g.homozygote_count

\* C10: the raw record counts every call, whatever its adj flag and groups;
\* every adj record is at most the global adj record, which is at most the
\* raw record, in AC, AN and homozygote count; counts are of allele 1.
C10_RawBoundsAdj ==
    FreqAnnotated =>
        /\ freq[2].AC = AlleleCountIn(AllSamples, 1)
        /\ freq[2].AN = AlleleNumberIn(AllSamples)
        /\ freq[2].homozygote_count = HomCountIn(AllSamples, 1)
        /\ freq[1].AC = AlleleCountIn(AdjSamples, 1)
        /\ freq[1].homozygote_count = HomCountIn(AdjSamples, 1)
        /\ LeqStats(freq[1], freq[2])
        /\ \A g \in 3..Len(freq) : LeqStats(freq[g], freq[1])

\* A non-adj carrier, an adj homozygote, and a group smaller than the cohort
C10_Witness ==
    /\ pc = "done"
    /\ freq[2].AC > freq[1].AC
    /\ freq[1].homozygote_count > 0
    /\ freq[1].AC > freq[1].homozygote_count
    /\ \E g \in 3..Len(freq) : freq[g].AN < freq[1].AN

\* C6 as claimed: with calculate_downsampling the run raises nothing and its
\* groups include a global downsampling group for every threshold.
C6_DownsamplingRunCompletes ==
    args.calculate_downsampling =>
        /\ error = None
        /\ pc = "done" =>
              \A k \in 1..Len(downsamplings) :
                 \E i \in 1..Len(freq_meta) :
                    /\ "downsampling" \in DOMAIN freq_meta[i]
                    /\ freq_meta[i]["downsampling"] = Str(downsamplings[k])

\* A sample has, for every grouping key of the label, the label's value
LabelDescribes(label, s) ==
    /\ "pop" \in DOMAIN label => s.pop = Some(label["pop"])
    /\ "sex" \in DOMAIN label => s.sex = Some(label["sex"])
    /\ "subpop" \in DOMAIN label => s.subpop = Some(label["subpop"])
    /\ "platform" \in DOMAIN label =>
          s.qc_platform # None /\ Str(s.qc_platform[1]) = label["platform"]

\* C7 as claimed: every predicate selects exactly the samples its label
\* describes.
C7_PredicateMatchesLabel ==
    \A f \in 1..Len(sample_group_filters) : \A i \in AllSamples :
        (group_membership(sample_group_filters[f].pred, samples[i], downsampling[i]) = "T")
           <=> LabelDescribes(sample_group_filters[f].label, samples[i])

ObservedPops == {samples[i].pop[1] : i \in {j \in AllSamples : samples[j].pop # None}}

\* C9 as claimed: popmax and faf get the observed populations minus the
\* removed ones, no removed population is the popmax population, and with
\* pops_to_remove_for_popmax left at None nothing is removed and the run goes on.
C9_PopmaxPopulations ==
    ~args.calculate_downsampling =>
        /\ pc \in {"faf", "project_max", "done"} =>
              /\ pops = ObservedPops \ (IF args.pops_to_remove_for_popmax = None THEN {}
                                        ELSE Range(args.pops_to_remove_for_popmax[1]))
              /\ popmax # None => popmax[1].pop \in pops
        /\ args.pops_to_remove_for_popmax = None => error = None

-----------------------------------------------------------------------------
(* Properties of _generate_downsamplings_cumulative *)

SamplesOfPop(p) == {i \in AllSamples : samples[i].pop = p}

\* The samples a group's predicate selects
Cohort(f) == {i \in AllSamples : group_membership(f.pred, samples[i], downsampling[i]) = "T"}

\* The group labelled with threshold ds and population name p
DownsamplingGroups(ds, p) ==
    {k \in 1..Len(sample_group_filters) :
        LET label == sample_group_filters[k].label IN
        /\ DOMAIN label = {"downsampling", "pop"}
        /\ label["downsampling"] = Str(ds)
        /\ label["pop"] = p}

\* C5: the returned thresholds are strictly ascending, hold every
\* population's sample count, hold a requested threshold exactly when it is
\* at most the number of samples, and never exceed that number; the group of
\* threshold ds and population p exists exactly when ds <= the count of p.
C5_ThresholdsDedupedCapped ==
    pc # "thresholds" =>
        /\ \A k, l \in 1..Len(downsamplings) : k < l => downsamplings[k] < downsamplings[l]
        /\ \A i \in AllSamples :
              Cardinality(SamplesOfPop(samples[i].pop)) \in Range(downsamplings)
        /\ \A x \in Range(args.downsamplings) :
              x \in Range(downsamplings) <=> x <= Len(samples)
        /\ \A x \in Range(downsamplings) : x <= Len(samples)
        /\ pc = "returned" =>
              \A ds \in Range(downsamplings) : \A p \in ObservedPops :
                 DownsamplingGroups(ds, p) # {} <=> ds <= Cardinality(SamplesOfPop(Some(p)))

\* A requested threshold above the cap, one below it that is no population's
\* count, and a population too small for a threshold that another one reaches
C5_Witness ==
    /\ pc = "returned"
    /\ \E x \in Range(args.downsamplings) : x > Len(samples)
    /\ \E x \in Range(args.downsamplings) :
          /\ x \in Range(downsamplings)
          /\ \A i \in AllSamples : Cardinality(SamplesOfPop(samples[i].pop)) # x
    /\ \E ds \in Range(downsamplings) : \E p, q \in ObservedPops :
          DownsamplingGroups(ds, p) = {} /\ DownsamplingGroups(ds, q) # {}

\* C8 as claimed: whatever the order and the populations, undefined ones
\* included, global_idx numbers all samples 0..N-1, pop_idx numbers each
\* population 0..count-1, the global group of ds holds exactly ds samples and
\* the group of (ds, p) exactly ds samples, all of population p.
C8_CohortsHoldExactlyDs ==
    pc \in {"returned", "error"} =>
        /\ error = None
        /\ \A i \in AllSamples : downsampling[i] # None
        /\ {downsampling[i][1].global_idx : i \in AllSamples} = 0..(Len(samples) - 1)
        /\ \A p \in ObservedPops :
              {downsampling[i][1].pop_idx : i \in SamplesOfPop(Some(p))}
                 = 0..(Cardinality(SamplesOfPop(Some(p))) - 1)
        /\ \A ds \in Range(downsamplings) :
              /\ DownsamplingGroups(ds, "global") # {}
              /\ \A k \in DownsamplingGroups(ds, "global") :
                    Cardinality(Cohort(sample_group_filters[k])) = ds
              /\ \A p \in ObservedPops : \A k \in DownsamplingGroups(ds, p) :
                    /\ Cardinality(Cohort(sample_group_filters[k])) = ds
                    /\ Cohort(sample_group_filters[k]) \subseteq SamplesOfPop(Some(p))

\* What holds of the samples that have a population: their pop_idx numbers
\* each population 0..count-1 and the group of (ds, p) holds exactly ds samples
PerPopulationCohortsExact ==
    pc = "returned" =>
        /\ \A p \in ObservedPops :
              {downsampling[i][1].pop_idx : i \in SamplesOfPop(Some(p))}
                 = 0..(Cardinality(SamplesOfPop(Some(p))) - 1)
        /\ \A ds \in Range(downsamplings) : \A p \in ObservedPops :
              \A k \in DownsamplingGroups(ds, p) :
                 /\ Cardinality(Cohort(sample_group_filters[k])) = ds
                 /\ Cohort(sample_group_filters[k]) \subseteq SamplesOfPop(Some(p))

====
